---- MODULE Spec2Model ----
(*************************************************************************)
(* A model of the linguistic feature extractor of src/src/analyzer.py    *)
(* (class LinguisticAnalyzer) and of the way its callers invoke it.      *)
(*                                                                       *)
(* A Python str is a sequence of one-character strings, a list is a      *)
(* sequence, a dict and a Counter are sequences of <<key, value>> pairs  *)
(* in insertion order, and a float that is the quotient of two integers  *)
(* is the pair <<numerator, denominator>>.                               *)
(*************************************************************************)
EXTENDS Integers, Sequences, FiniteSets, TLC

(*************************************************************************)
(* Characters and the str methods the analyzer uses.                     *)
(*************************************************************************)
LowerSeq ==
    <<"a","b","c","d","e","f","g","h","i","j","k","l","m",
      "n","o","p","q","r","s","t","u","v","w","x","y","z">>

UpperSeq ==
    <<"A","B","C","D","E","F","G","H","I","J","K","L","M",
      "N","O","P","Q","R","S","T","U","V","W","X","Y","Z">>

LowerChars == {LowerSeq[i] : i \in 1..Len(LowerSeq)}

UpperChars == {UpperSeq[i] : i \in 1..Len(UpperSeq)}

DigitChars == {"0","1","2","3","4","5","6","7","8","9"}

\* str.isspace() for one character
IsSpace(c) == c \in {" ", "\n", "\t"}

\* the characters the regular expression class \w matches
IsWordChar(c) == c \in LowerChars \cup UpperChars \cup DigitChars \cup {"_"}

Min(S) == CHOOSE x \in S : \A y \in S : x <= y

Max(S) == CHOOSE x \in S : \A y \in S : x >= y

\* a sequence given as a function on 1..n, as a tuple
tuple(f) == f \o <<>>

\* the elements of list at those of the indices a..b that are in K, in the
\* order of the list
RECURSIVE pick_between(_, _, _, _)
pick_between(list, K, a, b) ==
    IF a > b THEN <<>>
    ELSE IF a = b THEN (IF a \in K THEN <<list[a]>> ELSE <<>>)
    ELSE LET m == (a + b) \div 2
         IN  pick_between(list, K, a, m) \o pick_between(list, K, m + 1, b)

\* the elements of list at the indices in K, in the order of the list
pick(list, K) == pick_between(list, K, 1, Len(list))

\* [x for x in list if Test(x)]
filter(list, Test(_)) == pick(list, {i \in 1..Len(list) : Test(list[i])})

lower_char(c) ==
    IF c \in UpperChars
    THEN LowerSeq[CHOOSE i \in 1..Len(UpperSeq) : UpperSeq[i] = c]
    ELSE c

\* str.lower()
lower(s) == tuple([i \in 1..Len(s) |-> lower_char(s[i])])

\* str.isalpha(): non-empty and every character a letter
isalpha(w) ==
    /\ Len(w) > 0
    /\ \A i \in 1..Len(w) : w[i] \in LowerChars \cup UpperChars

\* str.isupper(): at least one cased character and no lowercase one
isupper(w) ==
    /\ \E i \in 1..Len(w) : w[i] \in UpperChars
    /\ \A i \in 1..Len(w) : w[i] \notin LowerChars

\* str.strip(): leading and trailing whitespace removed
strip(s) ==
    LET keep == {i \in 1..Len(s) : ~IsSpace(s[i])}
    IN  IF keep = {} THEN <<>> ELSE SubSeq(s, Min(keep), Max(keep))

\* str.rstrip()
rstrip(s) ==
    LET keep == {i \in 1..Len(s) : ~IsSpace(s[i])}
    IN  IF keep = {} THEN <<>> ELSE SubSeq(s, 1, Max(keep))

\* sep.join(list[a..b])
RECURSIVE join_between(_, _, _, _)
join_between(sep, list, a, b) ==
    IF a > b THEN <<>>
    ELSE IF a = b THEN list[a]
    ELSE LET m == (a + b) \div 2
         IN  join_between(sep, list, a, m) \o sep \o join_between(sep, list, m + 1, b)

\* sep.join(list)
join(sep, list) == join_between(sep, list, 1, Len(list))

\* the first index >= i at which sub occurs in s, 0 when there is none
find(s, sub, i) ==
    LET at == {j \in i..(Len(s) - Len(sub) + 1) :
                  SubSeq(s, j, j + Len(sub) - 1) = sub}
    IN  IF at = {} THEN 0 ELSE Min(at)

\* str.count(sub) from index i on: non-overlapping occurrences, left to right
RECURSIVE count_from(_, _, _)
count_from(s, sub, i) ==
    LET j == find(s, sub, i)
    IN  IF j = 0 THEN 0 ELSE 1 + count_from(s, sub, j + Len(sub))

\* str.count(sub): occurrences of one character cannot overlap
count(s, sub) ==
    IF Len(sub) = 1 THEN Cardinality({j \in 1..Len(s) : s[j] = sub[1]})
    ELSE count_from(s, sub, 1)

\* re.search of a literal: the literal occurs somewhere in s
contains(s, sub) == find(s, sub, 1) # 0

\* str.startswith(prefix)
startswith(s, prefix) ==
    Len(s) >= Len(prefix) /\ SubSeq(s, 1, Len(prefix)) = prefix

\* str.split(sep) for a one-character separator: the pieces between separators
split(s, sep) ==
    LET at == pick(tuple([j \in 1..Len(s) |-> j]), {j \in 1..Len(s) : s[j] = sep})
        edges == <<0>> \o at \o <<Len(s) + 1>>
    IN  tuple([k \in 1..(Len(at) + 1) |-> SubSeq(s, edges[k] + 1, edges[k + 1] - 1)])

\* the last index of the run of non-whitespace that starts at index i
RECURSIVE run_end(_, _)
run_end(s, i) ==
    IF i < Len(s) /\ ~IsSpace(s[i + 1]) THEN run_end(s, i + 1) ELSE i

\* str.split() with no argument: the maximal runs of non-whitespace
split_ws(s) ==
    LET starts == {i \in 1..Len(s) :
                      ~IsSpace(s[i]) /\ (i = 1 \/ IsSpace(s[i - 1]))}
        runs == [i \in 1..Len(s) |-> IF i \in starts THEN SubSeq(s, i, run_end(s, i)) ELSE <<>>]
    IN  pick(runs, starts)

\* list[-n:]
last_n(list, n) ==
    IF Len(list) <= n THEN list ELSE SubSeq(list, Len(list) - n + 1, Len(list))

\* list[:n]
first_n(list, n) == IF Len(list) <= n THEN list ELSE SubSeq(list, 1, n)

(*************************************************************************)
(* nltk.tokenize, as far as the texts of this model exercise it: texts   *)
(* hold letters, digits, whitespace and the marks , . ! ? ; : ( ) - and  *)
(* no quotes, apostrophes or runs of periods.                            *)
(*************************************************************************)
\* abbreviations of the Punkt English model that occur in the texts
Abbreviations == {<<"m","r">>, <<"m","r","s">>, <<"d","r">>}

SentEndChars == {".", "!", "?"}

\* the whitespace-delimited word that ends just before index i
word_before(s, i) ==
    LET sp == {j \in 1..(i - 1) : IsSpace(s[j])}
        b  == IF sp = {} THEN 1 ELSE Max(sp) + 1
    IN  SubSeq(s, b, i - 1)

\* Punkt: a sentence ends at index i when s[i] is a sentence-end character
\* followed by whitespace and more text (end is the length of the text
\* without its trailing whitespace), unless it is an abbreviation's period
is_sentence_break(s, i, end) ==
    /\ s[i] \in SentEndChars
    /\ i < end
    /\ IsSpace(s[i + 1])
    /\ s[i] = "." => lower(word_before(s, i)) \notin Abbreviations

\* the first index >= i that holds no whitespace (Len(s) + 1 when none)
RECURSIVE skip_space(_, _)
skip_space(s, i) ==
    IF i <= Len(s) /\ IsSpace(s[i]) THEN skip_space(s, i + 1) ELSE i

\* sent_tokenize(text): the text up to its trailing whitespace, cut after
\* every sentence break; a sentence starts at the first character that is
\* not whitespace after the break before it, the first one at the start
sent_tokenize(text) ==
    LET end == Len(rstrip(text))
        ends == tuple([j \in 1..end |-> is_sentence_break(text, j, end)])
        breaks == pick(tuple([j \in 1..end |-> j]), {j \in 1..end : ends[j]})
        n == Len(breaks)
        starts == tuple([k \in 1..(n + 1) |->
                      IF k = 1 THEN 1 ELSE skip_space(text, breaks[k - 1] + 1)])
        whole == tuple([k \in 1..n |-> SubSeq(text, starts[k], breaks[k])])
    IN  IF starts[n + 1] > end THEN whole
        ELSE whole \o <<SubSeq(text, starts[n + 1], end)>>

\* the marks the Treebank tokenizer always makes tokens of their own
PunctSplit == {"!", "?", ";", "(", ")"}

\* the index of the sentence-final period the Treebank tokenizer splits off
\* (a period that ends the sentence and does not follow a period), or 0
final_period(s) ==
    LET e == Len(rstrip(s))
    IN  IF e >= 2 /\ s[e] = "." /\ s[e - 1] # "." THEN e ELSE 0

\* index i of sentence s is a token of its own (fp is final_period(s))
is_separate(s, i, fp) ==
    \/ s[i] \in PunctSplit
    \/ /\ s[i] \in {",", ":"}
       /\ (i = Len(s) \/ s[i + 1] \notin DigitChars)
    \/ i = fp

\* the last index of the token that starts at index i
RECURSIVE token_end(_, _, _)
token_end(s, i, fp) ==
    IF i < Len(s) /\ ~IsSpace(s[i + 1]) /\ ~is_separate(s, i + 1, fp)
    THEN token_end(s, i + 1, fp)
    ELSE i

\* the Treebank tokens of one sentence: each mark that is split off, and each
\* maximal run of the other non-whitespace characters
treebank(s) ==
    LET fp == final_period(s)
        starts == {i \in 1..Len(s) :
                      /\ ~IsSpace(s[i])
                      /\ \/ i = 1
                         \/ IsSpace(s[i - 1])
                         \/ is_separate(s, i, fp)
                         \/ is_separate(s, i - 1, fp)}
        tokens == [i \in 1..Len(s) |->
                      IF i \notin starts THEN <<>>
                      ELSE IF is_separate(s, i, fp) THEN SubSeq(s, i, i)
                      ELSE SubSeq(s, i, token_end(s, i, fp))]
    IN  pick(tokens, starts)

\* the Treebank tokens of the sentences a..b, in turn
RECURSIVE tokens_between(_, _, _)
tokens_between(sentences, a, b) ==
    IF a > b THEN <<>>
    ELSE IF a = b THEN treebank(sentences[a])
    ELSE LET m == (a + b) \div 2
         IN  tokens_between(sentences, a, m) \o tokens_between(sentences, m + 1, b)

tokens_of(sentences) == tokens_between(sentences, 1, Len(sentences))

\* nltk.tokenize.word_tokenize: the Treebank tokens of each sentence in turn
word_tokenize(text) == tokens_of(sent_tokenize(text))

(*************************************************************************)
(* collections.Counter, and the quotients the analyzer returns.          *)
(*************************************************************************)
\* Counter(list): the elements with their counts, in order of first occurrence
Counter(list) ==
    LET firsts == {i \in 1..Len(list) : \A j \in 1..(i - 1) : list[j] # list[i]}
        keys == pick(list, firsts)
    IN  tuple([k \in 1..Len(keys) |->
            <<keys[k], Cardinality({j \in 1..Len(list) : list[j] = keys[k]})>>])

\* d[key] += 1 for every key of the list, on a defaultdict(int): the same
dict_of_counts(list) == Counter(list)

\* sorted_index, were equal counts put in reverse order
sorted_index_unstable(items, k) ==
    Cardinality({j \in 1..Len(items) :
        \/ items[j][2] > items[k][2]
        \/ items[j][2] = items[k][2] /\ j > k})

\* the index (counted from 0) that items[k] has after a sort by non-increasing
\* count that keeps the order of equal counts
sorted_index(items, k) ==
    Cardinality({j \in 1..Len(items) :
        \/ items[j][2] > items[k][2]
        \/ items[j][2] = items[k][2] /\ j < k})

\* sorted(items, key=count, reverse=True): a stable sort, so equal counts keep
\* the order they have in items
sorted_by_count(items) ==
    LET index == tuple([k \in 1..Len(items) |-> sorted_index(items, k)])
    IN  tuple([r \in 1..Len(items) |->
            items[CHOOSE k \in 1..Len(items) : index[k] = r - 1]])

\* most_common, were the list not cut to n entries
most_common_uncut(c, n) == sorted_by_count(c)

\* Counter.most_common(n)
most_common(c, n) == first_n(sorted_by_count(c), n)

\* the float n / d
Ratio(n, d) == <<n, d>>

RECURSIVE gcd(_, _)
gcd(a, b) == IF b = 0 THEN a ELSE gcd(b, a % b)

\* a quotient in lowest terms
reduced(q) ==
    LET g == gcd(q[1], q[2])
    IN  IF g = 0 THEN q ELSE <<q[1] \div g, q[2] \div g>>

ratio_add(p, q) == reduced(<<p[1] * q[2] + q[1] * p[2], p[2] * q[2]>>)

ratio_eq(p, q) == p[1] * q[2] = q[1] * p[2]

ratio_le(p, q) == p[1] * q[2] <= q[1] * p[2]

RECURSIVE ratio_sum(_)
ratio_sum(qs) ==
    IF qs = <<>> THEN <<0, 1>> ELSE ratio_add(Head(qs), ratio_sum(Tail(qs)))

(*************************************************************************)
(* LinguisticAnalyzer.                                                   *)
(*************************************************************************)
\* the part of stopwords.words('english') over the vocabulary of the texts
EnglishStopwords ==
    { <<"i">>, <<"m","e">>, <<"m","y">>, <<"w","e">>, <<"y","o","u">>,
      <<"y","o","u","r">>, <<"h","e">>, <<"s","h","e">>, <<"i","t">>,
      <<"t","h","e","y">>, <<"t","h","e","m">>, <<"t","h","i","s">>,
      <<"t","h","a","t">>, <<"i","s">>, <<"a","r","e">>, <<"w","a","s">>,
      <<"b","e">>, <<"h","a","v","e">>, <<"h","a","s">>, <<"d","o">>,
      <<"a">>, <<"a","n">>, <<"t","h","e">>, <<"a","n","d">>, <<"b","u","t">>,
      <<"i","f">>, <<"o","r">>, <<"o","f">>, <<"a","t">>, <<"b","y">>,
      <<"f","o","r">>, <<"w","i","t","h">>, <<"t","o">>, <<"f","r","o","m">>,
      <<"i","n">>, <<"o","n">>, <<"n","o","t">>, <<"v","e","r","y">>,
      <<"s","o">>, <<"h","o","w">>, <<"c","a","n">>, <<"w","i","l","l">>,
      <<"j","u","s","t">>, <<"h","e","r","e">>, <<"t","h","e","r","e">> }

corporate_stopwords ==
    { <<"e","m","a","i","l">>, <<"s","e","n","t">>, <<"s","u","b","j","e","c","t">>,
      <<"f","r","o","m">>, <<"t","o">>, <<"c","c">>, <<"b","c","c">>,
      <<"f","o","r","w","a","r","d","e","d">>, <<"o","r","i","g","i","n","a","l">>,
      <<"m","e","s","s","a","g","e">>, <<"w","r","o","t","e">>,
      <<"d","a","t","e">> }

\* __init__: self.stop_words after construction
__init__ == EnglishStopwords \cup corporate_stopwords

\* the default of top_n
top_n == 30

\* the default of n_gram
n_gram == 3

\* the argument of most_common in _get_favorite_phrases
top_phrases == 20

\* the stopwords a phrase may hold
phrase_exceptions == {<<"n","o","t">>, <<"v","e","r","y">>, <<"r","e","a","l","l","y">>}

\* comfort_meaningful_words, were the stopwords not filtered out
comfort_meaningful_words_unfiltered(sw, text) ==
    LET words_ == word_tokenize(lower(text))
        Keep(word) == isalpha(word) /\ Len(word) > 3
    IN  filter(words_, Keep)

\* _get_comfort_words: the meaningful words of the text
comfort_meaningful_words(sw, text) ==
    LET words == word_tokenize(lower(text))
        Keep(word) == isalpha(word) /\ word \notin sw /\ Len(word) > 3
    IN  filter(words, Keep)

_get_comfort_words(sw, text) ==
    most_common(Counter(comfort_meaningful_words(sw, text)), top_n)

\* the phrases one email adds to all_phrases in _get_favorite_phrases
phrases_of(sw, words_) ==
    LET last == Len(words_) - n_gram + 1
        Window(i) == SubSeq(words_, i, i + n_gram - 1)
        Substance(i) == \A k \in 1..n_gram :
                           Window(i)[k] \notin sw \/ Window(i)[k] \in phrase_exceptions
        joined == [i \in 1..last |-> join(<<" ">>, Window(i))]
    IN  IF last < 1 THEN <<>>
        ELSE pick(joined, {i \in 1..last : Substance(i)})

\* all_phrases, were the windows taken over the joined text
all_phrases_joined(sw, emails_) ==
    phrases_of(sw, word_tokenize(lower(join(<<" ">>, emails_))))

RECURSIVE all_phrases(_, _)
all_phrases(sw, emails_) ==
    IF emails_ = <<>> THEN <<>>
    ELSE phrases_of(sw, word_tokenize(lower(Head(emails_))))
         \o all_phrases(sw, Tail(emails_))

_get_favorite_phrases(sw, emails_) ==
    most_common(Counter(all_phrases(sw, emails_)), top_phrases)

\* chunk_size of _calculate_ttr
chunk_size == 1000

\* the length a chunk must exceed in _calculate_ttr
min_chunk == 100

\* the set of the elements of a list
set(list) == {list[i] : i \in 1..Len(list)}

\* the chunk of words that starts at offset i (counted from 0)
chunk_at(words, i) ==
    SubSeq(words, i + 1, IF i + chunk_size < Len(words) THEN i + chunk_size ELSE Len(words))

\* the chunk that starts at offset i is long enough to be counted
chunk_counts(chunk) == Len(chunk) > min_chunk

\* the list ttrs of _calculate_ttr, from offset i on
RECURSIVE ttrs_from(_, _)
ttrs_from(words, i) ==
    IF i >= Len(words) THEN <<>>
    ELSE LET chunk == chunk_at(words, i)
         IN  (IF chunk_counts(chunk)
              THEN <<Ratio(Cardinality(set(chunk)), Len(chunk))>> ELSE <<>>)
             \o ttrs_from(words, i + chunk_size)

_calculate_ttr(words) ==
    IF words = <<>> THEN <<0, 1>>
    ELSE LET ttrs == ttrs_from(words, 0)
             total == ratio_sum(ttrs)
         IN  IF ttrs = <<>> THEN <<0, 1>>
             ELSE reduced(<<total[1], total[2] * Len(ttrs)>>)

\* diversity_meaningful_words, were the length filter of the comfort words applied
diversity_meaningful_words_long(sw, text) ==
    LET words_ == word_tokenize(lower(text))
        Keep(w) == isalpha(w) /\ w \notin sw /\ Len(w) > 3
    IN  filter(words_, Keep)

\* the meaningful words of _calculate_diversity
diversity_meaningful_words(sw, text) ==
    LET words == word_tokenize(lower(text))
        Keep(w) == isalpha(w) /\ w \notin sw
    IN  filter(words, Keep)

_calculate_diversity(sw, text) ==
    LET meaningful_words == diversity_meaningful_words(sw, text)
        unique_words == set(meaningful_words)
    IN  [ total_words |-> Len(meaningful_words),
          unique_words |-> Cardinality(unique_words),
          lexical_diversity |->
              IF meaningful_words # <<>>
              THEN Ratio(Cardinality(unique_words), Len(meaningful_words))
              ELSE <<0, 1>>,
          vocabulary_richness |-> _calculate_ttr(meaningful_words) ]

\* occurrences per this many characters in _analyze_punctuation
per_chars == 1000

\* the character U+2014 (em dash), one element of a str
EmDash == "U+2014"

\* _analyze_punctuation divides by len(text)
_analyze_punctuation_raises(text) == Len(text) = 0

_analyze_punctuation(text) ==
    LET total_chars == Len(text)
    IN  [ ellipsis_usage |-> Ratio(count(text, <<".",".",".">>) * per_chars, total_chars),
          dash_usage |-> Ratio((count(text, <<"-">>) + count(text, <<EmDash>>)) * per_chars, total_chars),
          parenthesis_usage |-> Ratio(count(text, <<"(">>) * per_chars, total_chars),
          semicolon_usage |-> Ratio(count(text, <<";">>) * per_chars, total_chars) ]

\* the number of elements of a list that satisfy the test
count_if(list, Test(_)) == Cardinality({i \in 1..Len(list) : Test(list[i])})

\* _analyze_writing_style divides by len(sentences) and by len(words)
_analyze_writing_style_raises(text) ==
    \/ Len(sent_tokenize(text)) = 0
    \/ Len(word_tokenize(text)) = 0
    \/ _analyze_punctuation_raises(text)

\* _analyze_writing_style, without the two scores textstat computes
_analyze_writing_style(text) ==
    LET sentences == sent_tokenize(text)
        words == word_tokenize(text)
    IN  [ exclamation_usage |-> Ratio(count(text, <<"!">>), Len(sentences)),
          question_usage |-> Ratio(count(text, <<"?">>), Len(sentences)),
          uppercase_ratio |-> Ratio(count_if(words, isupper), Len(words)),
          punctuation_style |-> _analyze_punctuation(text) ]

\* the characters kept of a first or last sentence
snippet_chars == 50

\* the argument of most_common in _get_email_starters and _get_email_closings
top_snippets == 5

\* starters_of, were the whole first sentence kept
RECURSIVE starters_of_uncut(_)
starters_of_uncut(emails_) ==
    IF emails_ = <<>> THEN <<>>
    ELSE LET sentences == sent_tokenize(Head(emails_))
         IN  (IF sentences # <<>> THEN <<sentences[1]>> ELSE <<>>)
             \o starters_of_uncut(Tail(emails_))

RECURSIVE starters_of(_)
starters_of(emails_) ==
    IF emails_ = <<>> THEN <<>>
    ELSE LET sentences == sent_tokenize(Head(emails_))
         IN  (IF sentences # <<>>
              THEN <<first_n(sentences[1], snippet_chars)>> ELSE <<>>)
             \o starters_of(Tail(emails_))

_get_email_starters(emails_) == most_common(Counter(starters_of(emails_)), top_snippets)

RECURSIVE closings_of(_)
closings_of(emails_) ==
    IF emails_ = <<>> THEN <<>>
    ELSE LET sentences == sent_tokenize(Head(emails_))
         IN  (IF sentences # <<>>
              THEN <<last_n(sentences[Len(sentences)], snippet_chars)>> ELSE <<>>)
             \o closings_of(Tail(emails_))

_get_email_closings(emails_) == most_common(Counter(closings_of(emails_)), top_snippets)

transitions ==
    << <<"h","o","w","e","v","e","r">>,
       <<"t","h","e","r","e","f","o","r","e">>,
       <<"m","o","r","e","o","v","e","r">>,
       <<"f","u","r","t","h","e","r","m","o","r","e">>,
       <<"n","e","v","e","r","t","h","e","l","e","s","s">>,
       <<"c","o","n","s","e","q","u","e","n","t","l","y">>,
       <<"a","d","d","i","t","i","o","n","a","l","l","y">>,
       <<"m","e","a","n","w","h","i","l","e">>,
       <<"o","t","h","e","r","w","i","s","e">>,
       <<"a","c","c","o","r","d","i","n","g","l","y">> >>

\* the number of transition words kept
top_transitions == 5

\* _get_transition_preferences, were the text not lowercased
_get_transition_preferences_cased(emails_) ==
    LET text == join(<<" ">>, emails_)
        usage == tuple([k \in 1..Len(transitions) |->
                    <<transitions[k], count(text, transitions[k])>>])
    IN  first_n(sorted_by_count(usage), top_transitions)

_get_transition_preferences(emails_) ==
    LET text == lower(join(<<" ">>, emails_))
        usage == tuple([k \in 1..Len(transitions) |->
                    <<transitions[k], count(text, transitions[k])>>])
    IN  first_n(sorted_by_count(usage), top_transitions)

\* the last index of the run of \w characters that starts at index i
RECURSIVE word_run_end(_, _)
word_run_end(s, i) ==
    IF i < Len(s) /\ IsWordChar(s[i + 1]) THEN word_run_end(s, i + 1) ELSE i

\* the least length of an all-capitals word
caps_min == 3

\* len(re.findall(r'\b[A-Z]{3,}\b', email)): the runs of \w characters that
\* are capital letters only, caps_min of them or more
\* all_caps_count, were 2 capitals enough
all_caps_count_short(email) ==
    Cardinality({i \in 1..Len(email) :
        /\ IsWordChar(email[i])
        /\ (i = 1 \/ ~IsWordChar(email[i - 1]))
        /\ LET e == word_run_end(email, i)
           IN  /\ e - i + 1 >= caps_min - 1
               /\ \A k \in i..e : email[k] \in UpperChars})

all_caps_count(email) ==
    Cardinality({i \in 1..Len(email) :
        /\ IsWordChar(email[i])
        /\ (i = 1 \/ ~IsWordChar(email[i - 1]))
        /\ LET e == word_run_end(email, i)
           IN  /\ e - i + 1 >= caps_min
               /\ \A k \in i..e : email[k] \in UpperChars})

\* sum(F(x) for x in list)
sum_over(list, F(_)) ==
    LET total[i \in 0..Len(list)] ==
            IF i = 0 THEN 0 ELSE total[i - 1] + F(list[i])
    IN  total[Len(list)]

\* _get_emphasis_patterns, were the emails not lowercased
_get_emphasis_patterns_cased(emails_) ==
    LET VeryReally(email) ==
            count(email, <<"v","e","r","y">>) + count(email, <<"r","e","a","l","l","y">>)
        AbsolutelyDefinitely(email) ==
            count(email, <<"a","b","s","o","l","u","t","e","l","y">>) + count(email, <<"d","e","f","i","n","i","t","e","l","y">>)
    IN  [ all_caps |-> sum_over(emails_, all_caps_count),
          repetition |-> 0,
          very_really |-> sum_over(emails_, VeryReally),
          absolutely_definitely |-> sum_over(emails_, AbsolutelyDefinitely) ]

_get_emphasis_patterns(emails_) ==
    LET VeryReally(email) ==
            count(lower(email), <<"v","e","r","y">>) + count(lower(email), <<"r","e","a","l","l","y">>)
        AbsolutelyDefinitely(email) ==
            count(lower(email), <<"a","b","s","o","l","u","t","e","l","y">>) + count(lower(email), <<"d","e","f","i","n","i","t","e","l","y">>)
    IN  [ all_caps |-> sum_over(emails_, all_caps_count),
          repetition |-> 0,
          very_really |-> sum_over(emails_, VeryReally),
          absolutely_definitely |-> sum_over(emails_, AbsolutelyDefinitely) ]

_create_fingerprint(emails_) ==
    [ starter_phrases |-> _get_email_starters(emails_),
      closing_phrases |-> _get_email_closings(emails_),
      transition_words |-> _get_transition_preferences(emails_),
      emphasis_patterns |-> _get_emphasis_patterns(emails_) ]

\* re.match(r'^(w1|w2|...)\s+\w+', s): one of the words, whitespace, a \w
match_word_then_name(s, alternatives) ==
    \E w \in alternatives :
        /\ startswith(s, w)
        /\ Len(s) > Len(w)
        /\ IsSpace(s[Len(w) + 1])
        /\ LET j == skip_space(s, Len(w) + 1)
           IN  j <= Len(s) /\ IsWordChar(s[j])

informal_words == {<<"h","i">>, <<"h","e","l","l","o">>, <<"h","e","y">>}

formal_words == {<<"d","e","a","r">>, <<"g","r","e","e","t","i","n","g","s">>}

day_parts == {<<"m","o","r","n","i","n","g">>, <<"a","f","t","e","r","n","o","o","n">>, <<"e","v","e","n","i","n","g">>}

\* re.match(r'^(good\s+(morning|afternoon|evening))', s)
match_time_based(s) ==
    /\ startswith(s, <<"g","o","o","d">>)
    /\ Len(s) > 4
    /\ IsSpace(s[5])
    /\ LET j == skip_space(s, 5)
       IN  \E d \in day_parts :
              /\ j + Len(d) - 1 <= Len(s)
              /\ SubSeq(s, j, j + Len(d) - 1) = d

\* re.match(r'^\w+,', s)
match_name_only(s) ==
    /\ Len(s) > 0
    /\ IsWordChar(s[1])
    /\ LET e == word_run_end(s, 1)
       IN  e < Len(s) /\ s[e + 1] = ","

\* greeting_patterns, in the order of the list
greeting_styles == <<"informal", "formal", "time_based", "name_only">>

greeting_matches(style, s) ==
    CASE style = "informal"   -> match_word_then_name(s, informal_words)
      [] style = "formal"     -> match_word_then_name(s, formal_words)
      [] style = "time_based" -> match_time_based(s)
      [] style = "name_only"  -> match_name_only(s)

\* greeting_of, were the email not lowercased
greeting_of_cased(email) ==
    LET hits == {k \in 1..Len(greeting_styles) :
                    greeting_matches(greeting_styles[k], strip(email))}
    IN  IF hits = {} THEN <<>> ELSE <<greeting_styles[Min(hits)]>>

\* the styles one email increments in the inner loop of _analyze_greetings:
\* the first pattern that matches, then break
greeting_of(email) ==
    LET email_lower == strip(lower(email))
        hits == {k \in 1..Len(greeting_styles) :
                    greeting_matches(greeting_styles[k], email_lower)}
    IN  IF hits = {} THEN <<>> ELSE <<greeting_styles[Min(hits)]>>

\* the keys incremented, email by email, and the dict they leave
styles_of(emails_, StylesOf(_)) ==
    LET keys[i \in 0..Len(emails_)] ==
            IF i = 0 THEN <<>> ELSE keys[i - 1] \o StylesOf(emails_[i])
    IN  keys[Len(emails_)]

_analyze_greetings(emails_) == dict_of_counts(styles_of(emails_, greeting_of))

\* the number of last lines a signature is looked for in
signature_lines == 3

formal_closings == {<<"b","e","s","t">>, <<"r","e","g","a","r","d","s">>, <<"s","i","n","c","e","r","e","l","y">>}

grateful_closings == {<<"t","h","a","n","k","s">>, <<"t","h","x">>, <<"t","y">>}

casual_closings == {<<"c","h","e","e","r","s">>, <<"t","a","l","k"," ","s","o","o","n">>}

\* re.search(r'^-\s*\w+', s)
match_minimal(s) ==
    /\ Len(s) > 0
    /\ s[1] = "-"
    /\ LET j == skip_space(s, 2)
       IN  j <= Len(s) /\ IsWordChar(s[j])

\* signature_patterns, in the order of the list
signature_styles == <<"formal", "grateful", "casual", "minimal">>

signature_matches(style, s) ==
    CASE style = "formal"   -> \E w \in formal_closings : contains(s, w)
      [] style = "grateful" -> \E w \in grateful_closings : contains(s, w)
      [] style = "casual"   -> \E w \in casual_closings : contains(s, w)
      [] style = "minimal"  -> match_minimal(s)

\* last_lines_of, were every line of the email searched
last_lines_of_all(email) == lower(join(<<" ">>, split(strip(email), "\n")))

\* the text _analyze_signatures searches for one email
last_lines_of(email) ==
    LET lines == split(strip(email), "\n")
    IN  lower(join(<<" ">>, last_n(lines, signature_lines)))

\* the styles one email increments in the inner loop of _analyze_signatures:
\* every pattern that matches
signatures_of(email) ==
    LET last_lines == last_lines_of(email)
        Hit(style) == signature_matches(style, last_lines)
    IN  filter(signature_styles, Hit)

_analyze_signatures(emails_) == dict_of_counts(styles_of(emails_, signatures_of))

\* _analyze_email_patterns divides by len(emails)
_analyze_email_patterns_raises(emails_) == Len(emails_) = 0

_analyze_email_patterns(emails_) ==
    LET Words(e) == Len(split_ws(e))
    IN  [ avg_email_length |-> Ratio(sum_over(emails_, Words), Len(emails_)),
          greeting_style |-> _analyze_greetings(emails_),
          signature_style |-> _analyze_signatures(emails_) ]

\* a Python object of the emails list: a str, or something that is not a str
Str(s) == [type |-> "str", value |-> s]

NotAStr == [type |-> "int", value |-> <<>>]

\* join_raises, were only the first element looked at
join_raises_first_only(emails_) == Len(emails_) > 0 /\ emails_[1].type # "str"

\* ' '.join(emails) raises TypeError when an element is not a str
join_raises(emails_) == \E i \in 1..Len(emails_) : emails_[i].type # "str"

\* the strs of the emails list
values(emails_) == tuple([i \in 1..Len(emails_) |-> emails_[i].value])

\* the keys of the dict analyze_person builds, in the order it evaluates them
analysis_keys ==
    << "person", "total_emails", "comfort_words", "favorite_phrases",
       "writing_style", "vocabulary_diversity", "linguistic_fingerprint",
       "email_patterns" >>

\* evaluating the value of this key raises ZeroDivisionError
key_raises(key, strs, full_text) ==
    CASE key = "writing_style"  -> _analyze_writing_style_raises(full_text)
      [] key = "email_patterns" -> _analyze_email_patterns_raises(strs)
      [] OTHER -> FALSE

\* stop_words_after, were the phrase exceptions taken out of the shared set
stop_words_after_discarding(sw, emails_) == sw \ phrase_exceptions

\* stop_words_after, were analyze_person to add the words it met to the set
stop_words_after_learning(sw, emails_) ==
    sw \cup UNION {set(word_tokenize(lower(emails_[i].value))) : i \in 1..Len(emails_)}

\* self.stop_words after analyze_person(emails, ...): the method only reads it
stop_words_after(sw, emails_) == sw

\* analyze_person: what the call raises, the keys whose values were computed
\* before it returned or raised, and the dict it returns
analyze_person(sw, emails_, person) ==
    IF join_raises(emails_)
    THEN [raised |-> "TypeError", computed |-> <<>>, analysis |-> <<>>]
    ELSE LET strs == values(emails_)
             full_text == join(<<" ">>, strs)
             failing == {k \in 1..Len(analysis_keys) :
                            key_raises(analysis_keys[k], strs, full_text)}
         IN  IF failing # {}
             THEN [ raised |-> "ZeroDivisionError",
                    computed |-> SubSeq(analysis_keys, 1, Min(failing) - 1),
                    analysis |-> <<>> ]
             ELSE [ raised |-> "none",
                    computed |-> analysis_keys,
                    analysis |-> <<
                      [ person |-> person,
                        total_emails |-> Len(emails_),
                        comfort_words |-> _get_comfort_words(sw, full_text),
                        favorite_phrases |-> _get_favorite_phrases(sw, strs),
                        writing_style |-> _analyze_writing_style(full_text),
                        vocabulary_diversity |-> _calculate_diversity(sw, full_text),
                        linguistic_fingerprint |-> _create_fingerprint(strs),
                        email_patterns |-> _analyze_email_patterns(strs) ] >> ]

(*************************************************************************)
(* The texts the callers pass.                                           *)
(*************************************************************************)
MsgEmpty == <<>>

\* "Hi Sarah, how are you?"
MsgHiSarah ==
    << "H","i"," ","S","a","r","a","h",","," ","h","o","w"," ","a","r",
       "e"," ","y","o","u","?" >>

\* "Dear Mr. Smith,"
MsgDearSmith ==
    << "D","e","a","r"," ","M","r","."," ","S","m","i","t","h","," >>

\* five lines: "Team," / "best report" / "-bob thanks" / "see email" / "cheers"
MsgTeam ==
    << "T","e","a","m",",","\n","b","e","s","t"," ","r","e","p","o","r",
       "t","\n","-","b","o","b"," ","t","h","a","n","k","s","\n","s",
       "e","e"," ","e","m","a","i","l","\n","c","h","e","e","r","s" >>

\* "URGENT report not very good report"
MsgUrgent ==
    << "U","R","G","E","N","T"," ","r","e","p","o","r","t"," ","n","o",
       "t"," ","v","e","r","y"," ","g","o","o","d"," ","r","e","p","o",
       "r","t" >>

\* "how are you?"
MsgHow ==
    << "h","o","w"," ","a","r","e"," ","y","o","u","?" >>

\* the number of distinct words of the long message
LongWords == 31

\* the i-th word of the long message: four letters, no stopword
LongWord(i) == <<"z", LowerSeq[((i - 1) \div 6) + 1], LowerSeq[((i - 1) % 6) + 1], "x">>

\* LongWords distinct words, separated by single spaces
MsgLong == join(<<" ">>, tuple([i \in 1..LongWords |-> LongWord(i)]))

Messages ==
    {MsgEmpty, MsgHiSarah, MsgDearSmith, MsgTeam, MsgUrgent, MsgHow, MsgLong}

Elements == {Str(m) : m \in Messages} \cup {NotAStr}

\* the longest emails list a caller passes
MaxEmails == 2

EmailLists == UNION {[1..n -> Elements] : n \in 0..MaxEmails}

Persons == {"alice", "bob"}

\* person_emails: the lists the callers pass for each person; bob has one
\* email fewer than alice
EmailListsOf(p) ==
    {es \in EmailLists : Len(es) <= (IF p = "alice" THEN MaxEmails ELSE MaxEmails - 1)}

(*************************************************************************)
(* The mailbox of one person, from which _create_fingerprint,            *)
(* _analyze_signatures and _analyze_punctuation are given runs of        *)
(* consecutive emails.                                                   *)
(*************************************************************************)
\* "Hello John, this is great! Really great, I must say."
MsgGreat ==
    << "H","e","l","l","o"," ","J","o","h","n",","," ","t","h","i","s"," ",
       "i","s"," ","g","r","e","a","t","!"," ","R","e","a","l","l","y"," ",
       "g","r","e","a","t",","," ","I"," ","m","u","s","t"," ","s","a","y",
       "." >>

\* "URGENT DEADLINE TODAY"
MsgDeadline ==
    << "U","R","G","E","N","T"," ","D","E","A","D","L","I","N","E"," ","T",
       "O","D","A","Y" >>

\* "please respond ASAP"
MsgAsap ==
    << "p","l","e","a","s","e"," ","r","e","s","p","o","n","d"," ","A","S",
       "A","P" >>

\* "Otherwise we wait. However, MEANWHILE we work; otherwise we stop. Therefore however."
MsgTransitions ==
    << "O","t","h","e","r","w","i","s","e"," ","w","e"," ","w","a","i","t",
       "."," ","H","o","w","e","v","e","r",","," ","M","E","A","N","W","H",
       "I","L","E"," ","w","e"," ","w","o","r","k",";"," ","o","t","h","e",
       "r","w","i","s","e"," ","w","e"," ","s","t","o","p","."," ","T","h",
       "e","r","e","f","o","r","e"," ","h","o","w","e","v","e","r","." >>

\* "Thank you very much for the detailed quarterly report you sent. Best regards to all of the team members in the office, John"
MsgReport ==
    << "T","h","a","n","k"," ","y","o","u"," ","v","e","r","y"," ","m","u",
       "c","h"," ","f","o","r"," ","t","h","e"," ","d","e","t","a","i","l",
       "e","d"," ","q","u","a","r","t","e","r","l","y"," ","r","e","p","o",
       "r","t"," ","y","o","u"," ","s","e","n","t","."," ","B","e","s","t",
       " ","r","e","g","a","r","d","s"," ","t","o"," ","a","l","l"," ","o",
       "f"," ","t","h","e"," ","t","e","a","m"," ","m","e","m","b","e","r",
       "s"," ","i","n"," ","t","h","e"," ","o","f","f","i","c","e",","," ",
       "J","o","h","n" >>

\* two spaces
MsgBlank ==
    << " "," " >>

\* "well...ok (fine); NASA2 IT done - bye <em dash> end"
MsgMarks ==
    << "w","e","l","l",".",".",".","o","k"," ","(","f","i","n","e",")",";",
       " ","N","A","S","A","2"," ","I","T"," ","d","o","n","e"," ","-"," ","b","y",
       "e"," ",EmDash," ","e","n","d" >>

\* three lines: "Team," / "thanks for the update" / "-John"
MsgSigned ==
    << "T","e","a","m",",","\n","t","h","a","n","k","s"," ","f","o","r"," ",
       "t","h","e"," ","u","p","d","a","t","e","\n","-","J","o","h","n" >>

\* the emails of the person, in the order of the data set
Mailbox ==
    << MsgGreat, MsgDeadline, MsgAsap, MsgTransitions, MsgReport, MsgBlank,
       MsgAsap, MsgMarks, MsgSigned >>

\* the longest run of consecutive emails passed
MaxRun == 8

\* the runs of consecutive emails of the mailbox, the empty one included
MailboxRuns ==
    {<<>>} \cup {SubSeq(Mailbox, i, j) : i \in 1..Len(Mailbox), j \in 1..Len(Mailbox)}

Runs == {r \in MailboxRuns : Len(r) <= MaxRun}

\* the i-th word of a generated word list: four letters
TtrWord(i) ==
    << LowerSeq[((i \div 676) % 26) + 1], LowerSeq[((i \div 26) % 26) + 1],
       LowerSeq[(i % 26) + 1], "q" >>

\* the lengths and the vocabulary sizes of the word lists _calculate_ttr is
\* applied to: below, at and above the chunk limits
TtrLengths == {0, 1, 50, 99, 100, 101, 150, 999, 1000, 1001, 1099, 1100, 1101, 2000, 2100, 2101}

TtrVocabularies == {1, 2, 10, 100, 101, 1000, 3000}

\* n words over a vocabulary of k, each k consecutive ones distinct
TtrWords(n, k) == tuple([i \in 1..n |-> TtrWord(i % k)])

(*************************************************************************)
(* src/data_loader.py (class EnronDataLoader), which turns the rows of   *)
(* emails.csv into the lists of bodies the entry points quick_start.py   *)
(* and app.py pass to analyze_person.                                    *)
(*************************************************************************)
\* re.sub(mark{3,}.*, '', body, flags=re.DOTALL): everything from the first
\* run of three marks on is removed
cut_from(body, mark) ==
    LET at == find(body, <<mark, mark, mark>>, 1)
    IN  IF at = 0 THEN body ELSE SubSeq(body, 1, at - 1)

\* the body of a raw message: the lines after the first blank line (all of
\* them when there is none), cut at a run of dashes and at a run of equals
\* signs, stripped; a str never takes the except branch
_extract_email_body(raw_email) ==
    LET lines == split(raw_email, "\n")
        blank == {i \in 1..Len(lines) : strip(lines[i]) = <<>>}
        body_start == IF blank = {} THEN 1 ELSE Min(blank) + 1
        body == join(<<"\n">>, SubSeq(lines, body_start, Len(lines)))
    IN  strip(cut_from(cut_from(body, "-"), "="))

\* re.search(name + r'\s*([^\n]+)', raw_email): group 1 of the first match,
\* stripped, or the default when nothing matches. \s* is greedy, so the group
\* starts at the first character that is not whitespace; when only whitespace
\* follows the name, it backtracks to the last character that is no newline
header_value(raw_email, name, default) ==
    LET n == Len(raw_email)
        h == Len(name)
        matches == {j \in 1..(n - h + 1) :
                       /\ SubSeq(raw_email, j, j + h - 1) = name
                       /\ \E k \in (j + h)..n :
                              /\ raw_email[k] # "\n"
                              /\ \A m \in (j + h)..(k - 1) : IsSpace(raw_email[m])}
    IN  IF matches = {} THEN default
        ELSE LET j == Min(matches)
                 solid == {k \in (j + h)..n : ~IsSpace(raw_email[k])}
                 start == IF solid # {} THEN Min(solid)
                          ELSE Max({k \in (j + h)..n : raw_email[k] # "\n"})
                 stops == {k \in start..n : raw_email[k] = "\n"}
                 stop == IF stops = {} THEN n ELSE Min(stops) - 1
             IN  strip(SubSeq(raw_email, start, stop))

\* "From:"
From ==
    << "F","r","o","m",":" >>

\* "Unknown"
Unknown ==
    << "U","n","k","n","o","w","n" >>

_extract_sender(raw_email) == header_value(raw_email, From, Unknown)

\* "Subject:"
Subject ==
    << "S","u","b","j","e","c","t",":" >>

\* "No Subject"
NoSubject ==
    << "N","o"," ","S","u","b","j","e","c","t" >>

_extract_subject(raw_email) == header_value(raw_email, Subject, NoSubject)

\* the length a body has to exceed to be kept
min_content == 100

\* long_enough, were every body kept
long_enough_or_empty(content) == Len(content) >= 0

\* df['content'].str.len() > 100
long_enough(content) == Len(content) > min_content

\* load_emails_from_csv(limit) on the rows csv_ of emails.csv: the first limit
\* rows (all of them when limit is 0 or None), each with its body, sender and
\* subject, and of these the rows with a body that is long enough
load_emails_from_csv(csv_, limit) ==
    LET df == IF limit # 0 THEN first_n(csv_, limit) ELSE csv_
        rows == tuple([i \in 1..Len(df) |->
                    [ content |-> _extract_email_body(df[i]),
                      sender |-> _extract_sender(df[i]),
                      subject |-> _extract_subject(df[i]) ]])
    IN  pick(rows, {i \in 1..Len(rows) : long_enough(rows[i].content)})

\* df['sender'].value_counts(): the senders with their numbers of rows, by
\* non-increasing number
value_counts(df) ==
    sorted_by_count(Counter(tuple([i \in 1..Len(df) |-> df[i].sender])))

\* df[df['sender'] == sender]['content'].tolist()
sender_emails(df, sender) ==
    LET rows == pick(df, {i \in 1..Len(df) : df[i].sender = sender})
    IN  tuple([i \in 1..Len(rows) |-> rows[i].content])

\* get_emails_by_person(min_emails): the dict of the senders that have at
\* least min_emails rows, each with the list of its bodies
get_emails_by_person(df, min_emails) ==
    LET index == value_counts(df)
        lists == tuple([k \in 1..Len(index) |->
                     <<index[k][1], sender_emails(df, index[k][1])>>])
    IN  pick(lists, {k \in 1..Len(lists) : Len(lists[k][2]) >= min_emails})

\* the arguments quick_start.py passes to the loader
quick_start_limit == 5000

quick_start_min_emails == 30

\* the values of the sliders of app.py
num_emails == {1000 * k : k \in 1..10}

min_emails_person == {10 * k : k \in 1..10}

\* the number of people analyze_multiple_people and the comparison of app.py
\* analyse at most
max_people == 5

\* the number of whitespace-separated words below which app.py refuses a
\* custom text
min_words == 100

\* "Seu Texto"
SeuTexto ==
    << "S","e","u"," ","T","e","x","t","o" >>

(*************************************************************************)
(* The rows of emails.csv and the custom texts the entry points are run  *)
(* on.                                                                   *)
(*************************************************************************)
\* "alice"
Alice ==
    << "a","l","i","c","e" >>

\* "bob"
Bob ==
    << "b","o","b" >>

\* n characters: words of four letters, separated by single spaces
Filler(n) == tuple([i \in 1..n |-> IF i % 5 = 0 THEN " " ELSE "z"])

\* "Hello team, the report is ready. "
BodyHead ==
    << "H","e","l","l","o"," ","t","e","a","m",","," ","t","h","e"," ","r",
       "e","p","o","r","t"," ","i","s"," ","r","e","a","d","y","."," " >>

\* "w thanks."
BodyTail ==
    << "w"," ","t","h","a","n","k","s","." >>

\* a body of exactly n characters that starts and ends with a letter or a mark
BodyOfLength(n) ==
    BodyHead \o Filler(n - Len(BodyHead) - Len(BodyTail)) \o BodyTail

\* "\n-----Original Message-----\nold text"
QuotedMessage ==
    << "\n","-","-","-","-","-","O","r","i","g","i","n","a","l"," ","M","e",
       "s","s","a","g","e","-","-","-","-","-","\n","o","l","d"," ","t","e",
       "x","t" >>

\* "\n=====\nlegal notice  "
Footer ==
    << "\n","=","=","=","=","=","\n","l","e","g","a","l"," ","n","o","t",
       "i","c","e"," "," " >>

\* the i-th body the loader keeps: just long enough, alone, before a quoted
\* message or before a footer
KeptBody(i) ==
    IF i % 3 = 1 THEN BodyOfLength(min_content + 1)
    ELSE IF i % 3 = 2 THEN BodyOfLength(min_content + 1) \o QuotedMessage
    ELSE BodyOfLength(min_content + 2) \o Footer

\* "Message-ID: 1\nFrom: "
HeadersBefore ==
    << "M","e","s","s","a","g","e","-","I","D",":"," ","1","\n","F","r","o",
       "m",":"," " >>

\* "\nSubject: status\n\n"
HeadersAfter ==
    << "\n","S","u","b","j","e","c","t",":"," ","s","t","a","t","u","s",
       "\n","\n" >>

RawEmail(sender, body) == HeadersBefore \o sender \o HeadersAfter \o body

\* "ok\n---"
CutShort ==
    << "o","k","\n","-","-","-" >>

\* three rows the loader drops: a body of whitespace, a body of exactly
\* min_content characters, and one without a sender that a run of dashes
\* cuts short
DroppedRows ==
    << RawEmail(Alice, tuple([i \in 1..(min_content + 20) |-> IF i % 7 = 0 THEN "\n" ELSE " "])),
       RawEmail(Bob, BodyOfLength(min_content)),
       HeadersAfter \o CutShort \o BodyOfLength(min_content + 1) >>

\* emails.csv with a rows of alice and b rows of bob that the loader keeps,
\* and the dropped rows between them
Dataset(a, b) ==
    tuple([i \in 1..a |-> RawEmail(Alice, KeptBody(i))])
    \o DroppedRows
    \o tuple([i \in 1..b |-> RawEmail(Bob, KeptBody(i + 1))])

\* the largest number of kept rows of a sender of a small mailbox
MaxFew == 2

\* the numbers of kept rows of alice and bob: small mailboxes, and mailboxes
\* around the thresholds the entry point can pass
Mailboxes(entry_) ==
    {<<a, b>> : a \in 0..MaxFew, b \in 0..MaxFew}
    \cup (IF entry_ = "quick_start"
          THEN {<<quick_start_min_emails, quick_start_min_emails - 1>>,
                <<quick_start_min_emails, quick_start_min_emails>>}
          ELSE {<<Min(min_emails_person), Min(min_emails_person) - 1>>,
                <<2 * Min(min_emails_person), Min(min_emails_person)>>})

\* the i-th word of a custom text: every tenth one ends a sentence
\* "done."
Done ==
    << "d","o","n","e","." >>

TextWord(i) == IF i % 10 = 0 THEN Done ELSE LongWord((i % 30) + 1)

\* a custom text of n words, separated by single spaces
TextOfWords(n) == join(<<" ">>, tuple([i \in 1..n |-> TextWord(i)]))

\* a custom text of n exclamation marks, separated by newlines
TextOfMarks(n) == join(<<"\n">>, tuple([i \in 1..n |-> <<"!">>]))

\* the number of words of the longest custom text
MaxText == 101

\* the texts pasted into the text area of app.py: empty, of whitespace, and
\* of words or marks around min_words
UserTexts ==
    {<<>>, <<" ", "\n", " ">>}
    \cup {TextOfWords(n) : n \in {1, min_words \div 2} \cup ((min_words - 1)..MaxText)}
    \cup {TextOfMarks(n) : n \in (min_words - 1)..MaxText}

(*************************************************************************)
(* The state: one analyzer, constructed once and shared by every call,   *)
(* and the call of analyze_person in progress or last completed.         *)
(*************************************************************************)
VARIABLES
    stop_words,     \* self.stop_words of the analyzer
    emails,         \* the emails argument of the current call
    person_name,    \* the person_name argument of the current call
    pc,             \* "idle", "called", "returned" or "raised"
    analysis,       \* <<the dict returned>>, or <<>> when none was
    error,          \* the exception the call raised, or "none"
    computed,       \* the keys of the dict whose values were computed
    previous,       \* <<outcome>> of the call before with the same arguments, if any
    words,          \* the argument of a direct call of _calculate_ttr
    ttr,            \* <<its result>>, or <<>> before the call
    fingerprint,    \* <<the dict of a direct call of _create_fingerprint(emails)>>
    signatures,     \* <<the dict of a direct call of _analyze_signatures(emails)>>
    punctuation,    \* <<the outcome of _analyze_punctuation(' '.join(emails))>>
    entry,          \* the entry point that runs: "quick_start", "app", "custom" or "none"
    csv,            \* the rows of emails.csv: the raw messages
    emails_df,      \* <<loader.emails_df>>, or <<>> before load_emails_from_csv
    min_emails,     \* the min_emails passed to get_emails_by_person, 0 before
    person_emails,  \* <<the dict get_emails_by_person returned>>, or <<>> before
    user_text       \* the text in the text area of app.py

vars == <<stop_words, emails, person_name, pc, analysis, error, computed,
          previous, words, ttr, fingerprint, signatures, punctuation,
          entry, csv, emails_df, min_emails, person_emails, user_text>>

\* the variables of the direct calls of single methods
direct == <<words, ttr, fingerprint, signatures, punctuation>>

\* the variables of the entry points
shipped == <<entry, csv, emails_df, min_emails, person_emails, user_text>>

\* no entry point runs: the analyzer is called directly
NotShipped ==
    /\ entry = "none"
    /\ csv = <<>>
    /\ emails_df = <<>>
    /\ min_emails = 0
    /\ person_emails = <<>>
    /\ user_text = <<>>

\* the analyzer after LinguisticAnalyzer(), before any call
Init ==
    /\ stop_words = __init__
    /\ emails = <<>>
    /\ person_name = ""
    /\ pc = "idle"
    /\ analysis = <<>>
    /\ error = "none"
    /\ computed = <<>>
    /\ previous = <<>>
    /\ words = <<>>
    /\ ttr = <<>>
    /\ fingerprint = <<>>
    /\ signatures = <<>>
    /\ punctuation = <<>>
    /\ NotShipped

\* a caller invokes analyzer.analyze_person(es, p)
Call(es, p) ==
    /\ pc = "idle"
    /\ pc' = "called"
    /\ emails' = es
    /\ person_name' = p
    /\ UNCHANGED <<stop_words, analysis, error, computed, previous, direct, shipped>>

\* the body of analyze_person runs to its return or to the exception
AnalyzePerson ==
    /\ pc = "called"
    /\ \E r \in {analyze_person(stop_words, emails, person_name)} :
           /\ pc' = IF r.raised = "none" THEN "returned" ELSE "raised"
           /\ analysis' = r.analysis
           /\ error' = r.raised
           /\ computed' = r.computed
    /\ stop_words' = stop_words_after(stop_words, emails)
    /\ UNCHANGED <<emails, person_name, previous, direct, shipped>>

\* the caller invokes analyze_person once more with the same arguments (the
\* dashboard of app.py does on every rerun of its script)
CallAgain ==
    /\ pc \in {"returned", "raised"}
    /\ pc' = "called"
    /\ previous' = <<[analysis |-> analysis, error |-> error]>>
    /\ analysis' = <<>>
    /\ error' = "none"
    /\ computed' = <<>>
    /\ UNCHANGED <<stop_words, emails, person_name, direct, shipped>>

\* the caller is done with the outcome and keeps the analyzer for the next
\* call (the loop of analyze_multiple_people goes on to the next person)
Finish ==
    /\ pc \in {"returned", "raised"}
    /\ pc' = "idle"
    /\ emails' = <<>>
    /\ person_name' = ""
    /\ analysis' = <<>>
    /\ error' = "none"
    /\ computed' = <<>>
    /\ previous' = <<>>
    /\ UNCHANGED <<stop_words, direct, shipped>>

Next ==
    \/ \E p \in Persons : \E es \in EmailListsOf(p) : Call(es, p)
    \/ AnalyzePerson
    \/ CallAgain
    \/ Finish

Spec == Init /\ [][Next]_vars

\* _calculate_diversity passes a list of meaningful words to _calculate_ttr
InitTTR ==
    /\ stop_words = __init__
    /\ emails = <<>>
    /\ person_name = ""
    /\ pc = "idle"
    /\ analysis = <<>>
    /\ error = "none"
    /\ computed = <<>>
    /\ previous = <<>>
    /\ \E n \in TtrLengths, k \in TtrVocabularies : words = TtrWords(n, k)
    /\ ttr = <<>>
    /\ fingerprint = <<>>
    /\ signatures = <<>>
    /\ punctuation = <<>>
    /\ NotShipped

CalculateTTR ==
    /\ ttr = <<>>
    /\ ttr' = <<_calculate_ttr(words)>>
    /\ UNCHANGED <<stop_words, emails, person_name, pc, analysis, error,
                   computed, previous, words, fingerprint, signatures,
                   punctuation, shipped>>

NextTTR == CalculateTTR

SpecTTR == InitTTR /\ [][NextTTR]_vars

\* the variables of a call of analyze_person
call == <<stop_words, person_name, pc, analysis, error, computed, previous>>

\* analyze_person passes its emails to _create_fingerprint and, through
\* _analyze_email_patterns, to _analyze_signatures, and their joined text,
\* through _analyze_writing_style, to _analyze_punctuation
InitMethods ==
    /\ stop_words = __init__
    /\ \E run \in Runs : emails = tuple([i \in 1..Len(run) |-> Str(run[i])])
    /\ person_name = ""
    /\ pc = "idle"
    /\ analysis = <<>>
    /\ error = "none"
    /\ computed = <<>>
    /\ previous = <<>>
    /\ words = <<>>
    /\ ttr = <<>>
    /\ fingerprint = <<>>
    /\ signatures = <<>>
    /\ punctuation = <<>>
    /\ NotShipped

CreateFingerprint ==
    /\ fingerprint = <<>>
    /\ fingerprint' = <<_create_fingerprint(values(emails))>>
    /\ UNCHANGED <<call, emails, words, ttr, signatures, punctuation, shipped>>

AnalyzeSignatures ==
    /\ signatures = <<>>
    /\ signatures' = <<_analyze_signatures(values(emails))>>
    /\ UNCHANGED <<call, emails, words, ttr, fingerprint, punctuation, shipped>>

\* _analyze_punctuation returns its dict or raises on the division
AnalyzePunctuation ==
    /\ punctuation = <<>>
    /\ \E text \in {join(<<" ">>, values(emails))} :
           punctuation' =
               IF _analyze_punctuation_raises(text)
               THEN <<[raised |-> "ZeroDivisionError", style |-> <<>>]>>
               ELSE <<[raised |-> "none", style |-> <<_analyze_punctuation(text)>>]>>
    /\ UNCHANGED <<call, emails, words, ttr, fingerprint, signatures, shipped>>

NextMethods ==
    \/ CreateFingerprint
    \/ AnalyzeSignatures
    \/ AnalyzePunctuation

SpecMethods == InitMethods /\ [][NextMethods]_vars

(*************************************************************************)
(* The entry points: quick_start.py loads emails.csv and analyses the    *)
(* first person and then the first max_people people; the dashboard of   *)
(* app.py analyses the person selected and, on request, the first        *)
(* max_people people, or, in its other mode, a custom text.              *)
(*************************************************************************)
\* a list of strs as the emails argument
AsEmails(list) == tuple([i \in 1..Len(list) |-> Str(list[i])])

\* the indices of the keys that can be among the first n of the dict:
\* value_counts puts the senders with more rows first and fixes no order
\* among senders with equally many
FirstKeys(dict, n) ==
    {k \in 1..Len(dict) :
        Cardinality({j \in 1..Len(dict) : Len(dict[j][2]) > Len(dict[k][2])}) < n}

InitShipped ==
    /\ stop_words = __init__
    /\ emails = <<>>
    /\ person_name = ""
    /\ pc = "idle"
    /\ analysis = <<>>
    /\ error = "none"
    /\ computed = <<>>
    /\ previous = <<>>
    /\ words = <<>>
    /\ ttr = <<>>
    /\ fingerprint = <<>>
    /\ signatures = <<>>
    /\ punctuation = <<>>
    /\ entry \in {"quick_start", "app", "custom"}
    /\ IF entry = "custom"
       THEN csv = <<>> /\ user_text \in UserTexts
       ELSE /\ \E m \in Mailboxes(entry) : csv = Dataset(m[1], m[2])
            /\ user_text = <<>>
    /\ emails_df = <<>>
    /\ min_emails = 0
    /\ person_emails = <<>>

\* loader.load_emails_from_csv(limit=5000) of quick_start.py, and
\* load_enron_data(num_emails) of app.py
LoadEmailsFromCsv ==
    /\ entry \in {"quick_start", "app"}
    /\ pc = "idle"
    /\ emails_df = <<>>
    /\ \E limit \in (IF entry = "quick_start" THEN {quick_start_limit} ELSE num_emails) :
           emails_df' = <<load_emails_from_csv(csv, limit)>>
    /\ UNCHANGED <<call, emails, direct, entry, csv, min_emails, person_emails, user_text>>

\* loader.get_emails_by_person(min_emails=30) of quick_start.py, and
\* get_person_emails(loader, min_emails_person) of app.py, which runs again
\* when the slider is moved
GetEmailsByPerson ==
    /\ emails_df # <<>>
    /\ pc = "idle"
    /\ person_emails = <<>> \/ entry = "app"
    /\ \E m \in (IF entry = "quick_start" THEN {quick_start_min_emails} ELSE min_emails_person) :
           /\ min_emails' = m
           /\ person_emails' = <<get_emails_by_person(emails_df[1], m)>>
    /\ UNCHANGED <<call, emails, direct, entry, csv, emails_df, user_text>>

\* quick_start.py returns when the dict is empty, and else analyses its
\* first key
AnalyzeFirstPerson ==
    /\ entry = "quick_start"
    /\ person_emails # <<>>
    /\ person_emails[1] # <<>>
    /\ \E k \in FirstKeys(person_emails[1], 1) :
           Call(AsEmails(person_emails[1][k][2]), person_emails[1][k][1])

\* one turn of the loop of analyze_multiple_people
AnalyzeMultiplePeople ==
    /\ entry = "quick_start"
    /\ person_emails # <<>>
    /\ person_emails[1] # <<>>
    /\ \E k \in FirstKeys(person_emails[1], max_people) :
           Call(AsEmails(person_emails[1][k][2]), person_emails[1][k][1])

\* app.py analyses the person of the select box, when there is one
AnalyzeSelectedPerson ==
    /\ entry = "app"
    /\ person_emails # <<>>
    /\ \E k \in 1..Len(person_emails[1]) :
           Call(AsEmails(person_emails[1][k][2]), person_emails[1][k][1])

\* one turn of the loop over other_people of app.py
CompareOtherPeople ==
    /\ entry = "app"
    /\ person_emails # <<>>
    /\ \E k \in FirstKeys(person_emails[1], max_people) :
           Call(AsEmails(person_emails[1][k][2]), person_emails[1][k][1])

\* app.py shows an error for a custom text of fewer than min_words words
RefuseMyText ==
    /\ entry = "custom"
    /\ pc = "idle"
    /\ Len(split_ws(user_text)) < min_words
    /\ pc' = "refused"
    /\ UNCHANGED <<stop_words, emails, person_name, analysis, error, computed,
                   previous, direct, shipped>>

\* and else analyses the text as the one email of "Seu Texto"
AnalyzeMyText ==
    /\ entry = "custom"
    /\ ~(Len(split_ws(user_text)) < min_words)
    /\ Call(<<Str(user_text)>>, SeuTexto)

\* streamlit runs the script of app.py again on every interaction
Rerun ==
    /\ entry \in {"app", "custom"}
    /\ CallAgain

NextShipped ==
    \/ LoadEmailsFromCsv
    \/ GetEmailsByPerson
    \/ AnalyzeFirstPerson
    \/ AnalyzeMultiplePeople
    \/ AnalyzeSelectedPerson
    \/ CompareOtherPeople
    \/ RefuseMyText
    \/ AnalyzeMyText
    \/ AnalyzePerson
    \/ Rerun
    \/ Finish

SpecShipped == InitShipped /\ [][NextShipped]_vars

(*************************************************************************)
(* Properties.                                                           *)
(*************************************************************************)
\* the call has ended, by a return or by an exception
Ended == pc \in {"returned", "raised"}

\* the arguments of the call, when every element is a str
Strs == values(emails)

FullText == join(<<" ">>, Strs)

\* the quotient is zero
IsZero(q) == q[1] = 0

\* the value of a key in a dict, 0 when the key is absent
ValueOf(dict, key) ==
    IF \E k \in 1..Len(dict) : dict[k][1] = key
    THEN dict[CHOOSE k \in 1..Len(dict) : dict[k][1] = key][2]
    ELSE 0

\* every key of the dict occurs once and has a positive value
IsTally(dict) ==
    /\ \A j, k \in 1..Len(dict) : dict[j][1] = dict[k][1] => j = k
    /\ \A k \in 1..Len(dict) : dict[k][2] >= 1

SumOfValues(dict) ==
    LET total[i \in 0..Len(dict)] == IF i = 0 THEN 0 ELSE total[i - 1] + dict[i][2]
    IN  total[Len(dict)]

\* the counts of the list never increase from one entry to the next
NonIncreasing(list) == \A i \in 1..(Len(list) - 1) : list[i][2] >= list[i + 1][2]

\* C1: analyze_person called with an empty list of messages raises nothing
\* and returns a record with total_emails 0, no comfort words and every
\* ratio and mean equal to 0.
C1_EmptyListGivesZeroRecord ==
    (Ended /\ emails = <<>>) =>
        /\ pc = "returned"
        /\ error = "none"
        /\ analysis # <<>>
        /\ analysis[1].total_emails = 0
        /\ analysis[1].comfort_words = <<>>
        /\ IsZero(analysis[1].writing_style.exclamation_usage)
        /\ IsZero(analysis[1].writing_style.question_usage)
        /\ IsZero(analysis[1].writing_style.uppercase_ratio)
        /\ IsZero(analysis[1].writing_style.punctuation_style.ellipsis_usage)
        /\ IsZero(analysis[1].writing_style.punctuation_style.dash_usage)
        /\ IsZero(analysis[1].writing_style.punctuation_style.parenthesis_usage)
        /\ IsZero(analysis[1].writing_style.punctuation_style.semicolon_usage)
        /\ IsZero(analysis[1].vocabulary_diversity.lexical_diversity)
        /\ IsZero(analysis[1].vocabulary_diversity.vocabulary_richness)
        /\ IsZero(analysis[1].email_patterns.avg_email_length)

\* C2: a call whose list of messages holds an element that is not a string
\* ends in an exception about that element, raised before the value of any
\* key of the record is computed, and returns no record.
C2_NonStringFailsFast ==
    (Ended /\ \E i \in 1..Len(emails) : emails[i].type # "str") =>
        /\ pc = "raised"
        /\ error = "TypeError"
        /\ computed = <<>>
        /\ analysis = <<>>

\* a call has raised on a list whose first element is a non-empty string and
\* whose second is not a string
C2_Witness ==
    /\ pc = "raised"
    /\ error = "TypeError"
    /\ Len(emails) = 2
    /\ emails[1].type = "str"
    /\ emails[1].value # <<>>
    /\ emails[2].type # "str"

C4_TopListsBoundedAndSorted ==
    pc = "returned" =>
        /\ Len(analysis[1].comfort_words) <= 30
        /\ Len(analysis[1].favorite_phrases) <= 20
        /\ NonIncreasing(analysis[1].comfort_words)
        /\ NonIncreasing(analysis[1].favorite_phrases)

\* a record has been returned for a text of more than 30 distinct comfort
\* words, with counts that differ, and more than 20 distinct phrases
C4_Witness ==
    /\ pc = "returned"
    /\ Cardinality(set(comfort_meaningful_words(stop_words, FullText))) > 30
    /\ Cardinality(set(all_phrases(stop_words, Strs))) > 20
    /\ Len(analysis[1].comfort_words) = 30
    /\ Len(analysis[1].favorite_phrases) = 20
    /\ analysis[1].comfort_words[1][2] > analysis[1].comfort_words[30][2]

\* C5: every comfort word is a lowercase token of the space-joined text that
\* is alphabetic, no stopword (English or one of the 12 corporate terms) and
\* longer than 3 characters; its count is the number of its occurrences; words
\* of equal count stand in the order of their first occurrence in the text.
C5_ComfortWords ==
    pc = "returned" =>
        \A toks \in {word_tokenize(lower(FullText))} :
            LET cw == analysis[1].comfort_words
                First(w) == Min({i \in 1..Len(toks) : toks[i] = w})
            IN  /\ Cardinality(corporate_stopwords) = 12
                /\ stop_words = EnglishStopwords \cup corporate_stopwords
                /\ \A k \in 1..Len(cw) :
                      /\ \E i \in 1..Len(toks) : toks[i] = cw[k][1]
                      /\ cw[k][1] = lower(cw[k][1])
                      /\ isalpha(cw[k][1])
                      /\ cw[k][1] \notin stop_words
                      /\ Len(cw[k][1]) > 3
                      /\ cw[k][2] = Cardinality({i \in 1..Len(toks) : toks[i] = cw[k][1]})
                /\ \A j, k \in 1..Len(cw) :
                      (j < k /\ cw[j][2] = cw[k][2]) => First(cw[j][1]) < First(cw[k][1])

\* a record has been returned for a text that holds an English stopword, a
\* corporate term, a short word that is no stopword and a word used twice,
\* and two of its comfort words have the same count
C5_Witness ==
    /\ pc = "returned"
    /\ \A toks \in {word_tokenize(lower(FullText))} :
          /\ \E i \in 1..Len(toks) : toks[i] \in EnglishStopwords
          /\ \E i \in 1..Len(toks) : toks[i] \in corporate_stopwords
          /\ \E i \in 1..Len(toks) :
                isalpha(toks[i]) /\ toks[i] \notin stop_words /\ Len(toks[i]) <= 3
    /\ analysis[1].comfort_words[1][2] >= 2
    /\ \E j, k \in 1..Len(analysis[1].comfort_words) :
          j < k /\ analysis[1].comfort_words[j][2] = analysis[1].comfort_words[k][2]

\* the windows of 3 consecutive tokens, as <<message, index>>, that join to
\* the phrase (toks holds the lowercase tokens of each message)
WindowsOf(toks, phrase) ==
    {w \in UNION {{<<m, i>> : i \in 1..(Len(toks[m]) - 2)} : m \in 1..Len(toks)} :
        join(<<" ">>, SubSeq(toks[w[1]], w[2], w[2] + 2)) = phrase}

\* no token of the window is a stopword other than "not", "very", "really"
HasSubstance(window) ==
    \A k \in 1..Len(window) :
        \/ window[k] \notin stop_words
        \/ window[k] \in {<<"n","o","t">>, <<"v","e","r","y">>, <<"r","e","a","l","l","y">>}

C7_LexicalDiversity ==
    pc = "returned" =>
        \A toks \in {word_tokenize(lower(FullText))} :
            LET kept == {i \in 1..Len(toks) : isalpha(toks[i]) /\ toks[i] \notin stop_words}
                vd == analysis[1].vocabulary_diversity
                ld == vd.lexical_diversity
            IN  /\ vd.total_words = Cardinality(kept)
                /\ vd.unique_words = Cardinality({toks[i] : i \in kept})
                /\ vd.total_words > 0 =>
                      /\ ld[1] * vd.total_words = vd.unique_words * ld[2]
                      /\ ld[1] > 0
                /\ vd.total_words = 0 => ld[1] = 0
                /\ ld[2] > 0
                /\ 0 <= ld[1]
                /\ ld[1] <= ld[2]

\* a record has been returned for a text in which a word is used twice and a
\* word of at most 3 characters is counted
C7_Witness ==
    /\ pc = "returned"
    /\ analysis[1].vocabulary_diversity.total_words > analysis[1].vocabulary_diversity.unique_words
    /\ analysis[1].vocabulary_diversity.unique_words > 1
    /\ \A toks \in {word_tokenize(lower(FullText))} :
          \E i \in 1..Len(toks) :
              isalpha(toks[i]) /\ toks[i] \notin stop_words /\ Len(toks[i]) <= 3

\* the chunk of at most 1000 words that starts after 1000 * c words
ChunkOf(ws, c) ==
    SubSeq(ws, 1000 * c + 1, IF 1000 * (c + 1) < Len(ws) THEN 1000 * (c + 1) ELSE Len(ws))

\* the type-token ratios of the chunks of at least 100 words
QualifyingRatios(ws) ==
    LET last == (Len(ws) + 999) \div 1000
        from[c \in 0..last] ==
            IF c = last THEN <<>>
            ELSE (IF Len(ChunkOf(ws, c)) >= 100
                  THEN <<Ratio(Cardinality(set(ChunkOf(ws, c))), Len(ChunkOf(ws, c)))>>
                  ELSE <<>>) \o from[c + 1]
    IN  from[0]

\* C8: vocabulary_richness is the mean of the type-token ratios of the
\* consecutive 1000-word chunks of the meaningful words, a chunk being counted
\* if and only if it has at least 100 words; it is 0 when no chunk is counted.
C8_RichnessCountsChunksOfAtLeast100 ==
    ttr # <<>> =>
        \A ratios \in {QualifyingRatios(words)} :
            IF ratios = <<>>
            THEN ttr[1][1] = 0
            ELSE LET total == ratio_sum(ratios)
                 IN  ttr[1][1] * total[2] * Len(ratios) = total[1] * ttr[1][2]

\* the first matching style of the message, in the order informal, formal,
\* time_based, name_only; <<>> when no pattern matches
FirstGreeting(message) ==
    LET s == strip(lower(message))
    IN  IF greeting_matches("informal", s) THEN <<"informal">>
        ELSE IF greeting_matches("formal", s) THEN <<"formal">>
        ELSE IF greeting_matches("time_based", s) THEN <<"time_based">>
        ELSE IF greeting_matches("name_only", s) THEN <<"name_only">>
        ELSE <<>>

\* C9: each message increments at most one greeting_style category, that of
\* the first pattern that matches in the order informal, formal, time_based,
\* name_only, and none when no pattern matches; the sum of the counts never
\* exceeds total_emails; "Hi Sarah, how are you?" counts as informal and
\* "Dear Mr. Smith," as formal.
C9_GreetingsExclusive ==
    pc = "returned" =>
        LET gs == analysis[1].email_patterns.greeting_style
        IN  /\ IsTally(gs)
            /\ \A k \in 1..Len(gs) : gs[k][1] \in {"informal", "formal", "time_based", "name_only"}
            /\ \A style \in {"informal", "formal", "time_based", "name_only"} :
                  ValueOf(gs, style) =
                      Cardinality({m \in 1..Len(Strs) : FirstGreeting(Strs[m]) = <<style>>})
            /\ SumOfValues(gs) <= analysis[1].total_emails
            /\ Strs = <<MsgHiSarah>> => gs = << <<"informal", 1>> >>
            /\ Strs = <<MsgDearSmith>> => gs = << <<"formal", 1>> >>

\* a record has been returned for "Hi Sarah, how are you?" followed by a
\* message that matches no greeting pattern
C9_Witness ==
    /\ pc = "returned"
    /\ Len(emails) = 2
    /\ Strs[1] = MsgHiSarah
    /\ Strs[2] # <<>>
    /\ FirstGreeting(Strs[2]) = <<>>
    /\ analysis[1].email_patterns.greeting_style = << <<"informal", 1>> >>

\* the lowercased join of the last 3 lines of the message
LastThreeLines(message) ==
    LET lines == split(strip(message), "\n")
    IN  lower(join(<<" ">>, SubSeq(lines, IF Len(lines) > 3 THEN Len(lines) - 2 ELSE 1, Len(lines))))

\* C10: each signature_style count is the number of messages whose last 3
\* lines, joined and lowercased, match the pattern of the category: a message
\* may increment several categories, each at most once, so every count is at
\* most total_emails, and text above the last 3 lines never contributes.
C10_SignaturesCumulative ==
    pc = "returned" =>
        LET ss == analysis[1].email_patterns.signature_style
        IN  /\ IsTally(ss)
            /\ \A k \in 1..Len(ss) : ss[k][1] \in {"formal", "grateful", "casual", "minimal"}
            /\ \A style \in {"formal", "grateful", "casual", "minimal"} :
                  /\ ValueOf(ss, style) =
                        Cardinality({m \in 1..Len(Strs) :
                                        signature_matches(style, LastThreeLines(Strs[m]))})
                  /\ ValueOf(ss, style) <= analysis[1].total_emails

\* a record has been returned for one message of more than 3 lines that
\* increments three categories and has a formal closing above its last 3 lines
C10_Witness ==
    /\ pc = "returned"
    /\ Len(emails) = 1
    /\ Len(split(strip(Strs[1]), "\n")) > 3
    /\ signature_matches("formal", lower(Strs[1]))
    /\ ValueOf(analysis[1].email_patterns.signature_style, "formal") = 0
    /\ ValueOf(analysis[1].email_patterns.signature_style, "grateful") = 1
    /\ ValueOf(analysis[1].email_patterns.signature_style, "casual") = 1
    /\ ValueOf(analysis[1].email_patterns.signature_style, "minimal") = 1

\* the number of places of the text where the word stands
Occurrences(text, word) ==
    Cardinality({i \in 1..(Len(text) - Len(word) + 1) :
                    SubSeq(text, i, i + Len(word) - 1) = word})

\* the place of the word in the fixed vocabulary of transition words
VocabularyIndex(word) == CHOOSE k \in 1..Len(transitions) : transitions[k] = word

\* the first pair goes before the second: a higher count, or the same count
\* and an earlier place in the vocabulary
GoesBefore(p, q) ==
    \/ p[2] > q[2]
    \/ p[2] = q[2] /\ VocabularyIndex(p[1]) < VocabularyIndex(q[1])

\* C11: transition_words holds exactly 5 of the 10 transition words, each
\* with the number of its case-insensitive occurrences in the space-joined
\* text; the 5 are those of the highest counts, and of equal counts the word
\* earlier in the vocabulary is kept and listed first.
C11_TransitionWords ==
    fingerprint # <<>> =>
        \A text \in {lower(FullText)} :
            LET tw == fingerprint[1].transition_words
            IN  /\ Len(transitions) = 10
                /\ Len(tw) = 5
                /\ \A k \in 1..Len(tw) :
                      /\ \E v \in 1..Len(transitions) : transitions[v] = tw[k][1]
                      /\ tw[k][2] = Occurrences(text, tw[k][1])
                /\ \A j, k \in 1..Len(tw) : j < k => GoesBefore(tw[j], tw[k])
                /\ \A v \in 1..Len(transitions) :
                      (\A k \in 1..Len(tw) : tw[k][1] # transitions[v]) =>
                          \A k \in 1..Len(tw) :
                              GoesBefore(tw[k], <<transitions[v], Occurrences(text, transitions[v])>>)

\* a fingerprint has been made of a text in which a word of the second half
\* of the vocabulary is kept ahead of earlier words, two kept words have the
\* same count above 0, and a kept word is written with capitals
C11_Witness ==
    /\ fingerprint # <<>>
    /\ \E k \in 1..4 :
          /\ VocabularyIndex(fingerprint[1].transition_words[k][1]) > 5
          /\ fingerprint[1].transition_words[k][2] >
                 fingerprint[1].transition_words[k + 1][2]
    /\ fingerprint[1].transition_words[1][2] = fingerprint[1].transition_words[2][2]
    /\ fingerprint[1].transition_words[2][2] > 0
    /\ \E k \in 1..5 :
          Occurrences(FullText, fingerprint[1].transition_words[k][1]) <
              fingerprint[1].transition_words[k][2]

\* the messages that have at least one sentence
WithSentence == {m \in 1..Len(Strs) : sent_tokenize(Strs[m]) # <<>>}

\* the first 50 characters of the first sentence of message m
StarterOf(m) ==
    LET first == sent_tokenize(Strs[m])[1]
    IN  SubSeq(first, 1, IF Len(first) < 50 THEN Len(first) ELSE 50)

\* the last 50 characters of the last sentence of message m
ClosingOf(m) ==
    LET sentences == sent_tokenize(Strs[m])
        last == sentences[Len(sentences)]
    IN  SubSeq(last, IF Len(last) < 50 THEN 1 ELSE Len(last) - 49, Len(last))

\* C12: starter_phrases and closing_phrases have at most 5 entries each;
\* every snippet has at most 50 characters and is the first 50 characters of
\* the first sentence of a message (starters) or the last 50 of its last
\* sentence (closings); a message without a sentence adds to neither; the
\* counts of each list sum to at most total_emails.
C12_StartersAndClosings ==
    fingerprint # <<>> =>
        LET sp == fingerprint[1].starter_phrases
            cp == fingerprint[1].closing_phrases
        IN  /\ Len(sp) <= 5
            /\ Len(cp) <= 5
            /\ IsTally(sp)
            /\ IsTally(cp)
            /\ \A k \in 1..Len(sp) :
                  /\ Len(sp[k][1]) <= 50
                  /\ \E m \in WithSentence : sp[k][1] = StarterOf(m)
            /\ \A k \in 1..Len(cp) :
                  /\ Len(cp[k][1]) <= 50
                  /\ \E m \in WithSentence : cp[k][1] = ClosingOf(m)
            /\ SumOfValues(sp) <= Cardinality(WithSentence)
            /\ SumOfValues(cp) <= Cardinality(WithSentence)
            /\ Cardinality(WithSentence) <= Len(emails)

\* a fingerprint has been made of messages with more than 5 distinct
\* starters, one of them cut to 50 characters, one used twice, and with a
\* message that has no sentence
C12_Witness ==
    /\ fingerprint # <<>>
    /\ Cardinality({StarterOf(m) : m \in WithSentence}) > 5
    /\ Cardinality(WithSentence) < Len(emails)
    /\ Len(fingerprint[1].starter_phrases) = 5
    /\ Len(fingerprint[1].closing_phrases) = 5
    /\ fingerprint[1].starter_phrases[1][2] = 2
    /\ \E k \in 1..5 : \E m \in WithSentence :
          /\ fingerprint[1].starter_phrases[k][1] = StarterOf(m)
          /\ Len(fingerprint[1].starter_phrases[k][1]) = 50
          /\ Len(sent_tokenize(Strs[m])[1]) > 50

\* C13: very_really is the sum over the messages of the case-insensitive
\* occurrences of "very" and of "really" in the message; for the one message
\* "Hello John, this is great! Really great, I must say." it is 1.
C13_VeryReally ==
    fingerprint # <<>> =>
        LET total[m \in 0..Len(Strs)] ==
                IF m = 0 THEN 0
                ELSE total[m - 1] + Occurrences(lower(Strs[m]), <<"v","e","r","y">>)
                                  + Occurrences(lower(Strs[m]), <<"r","e","a","l","l","y">>)
        IN  /\ fingerprint[1].emphasis_patterns.very_really = total[Len(Strs)]
            /\ Strs = <<MsgGreat>> => fingerprint[1].emphasis_patterns.very_really = 1

\* a fingerprint has been made of "Hello John, this is great! Really great,
\* I must say." alone
C13_Witness ==
    /\ fingerprint # <<>>
    /\ Strs = <<MsgGreat>>
    /\ Occurrences(MsgGreat, <<"r","e","a","l","l","y">>) = 0
    /\ Occurrences(lower(MsgGreat), <<"g","r","e","a","t">>) = 2
    /\ fingerprint[1].emphasis_patterns.very_really = 1

\* the runs of 3 or more capitals of the message that no letter or digit
\* touches, by their first index
CapitalWords(message) ==
    {i \in 1..Len(message) :
        /\ message[i] \in UpperChars
        /\ (i = 1 \/ ~IsWordChar(message[i - 1]))
        /\ \E e \in i..Len(message) :
              /\ e - i + 1 >= 3
              /\ \A k \in i..e : message[k] \in UpperChars
              /\ (e = Len(message) \/ ~IsWordChar(message[e + 1]))}

\* C14: all_caps is the sum over the messages of the word-bounded runs of 3 or
\* more capitals A-Z in the message as written; runs of 1 or 2 capitals and
\* runs touching a digit or a lowercase letter are not counted; for
\* "URGENT DEADLINE TODAY" and "please respond ASAP" it is at least 1 (it
\* counts the four words).
C14_AllCaps ==
    fingerprint # <<>> =>
        LET total[m \in 0..Len(Strs)] ==
                IF m = 0 THEN 0 ELSE total[m - 1] + Cardinality(CapitalWords(Strs[m]))
        IN  /\ fingerprint[1].emphasis_patterns.all_caps = total[Len(Strs)]
            /\ Strs = <<MsgDeadline, MsgAsap>> =>
                  /\ fingerprint[1].emphasis_patterns.all_caps >= 1
                  /\ fingerprint[1].emphasis_patterns.all_caps = 4

\* a fingerprint has been made of messages that hold a run of 2 capitals, a
\* run of capitals touching a digit, and capital words in two messages
C14_Witness ==
    /\ fingerprint # <<>>
    /\ Len(emails) >= 2
    /\ \E m \in 1..Len(Strs) : \E i \in 1..(Len(Strs[m]) - 3) :
          /\ Strs[m][i] = " "
          /\ Strs[m][i + 1] \in UpperChars
          /\ Strs[m][i + 2] \in UpperChars
          /\ Strs[m][i + 3] = " "
    /\ \E m \in 1..Len(Strs) : \E i \in 1..(Len(Strs[m]) - 3) :
          /\ \A k \in i..(i + 2) : Strs[m][k] \in UpperChars
          /\ Strs[m][i + 3] \in DigitChars
    /\ \E m, n \in 1..Len(Strs) :
          m # n /\ CapitalWords(Strs[m]) # {} /\ CapitalWords(Strs[n]) # {}
    /\ fingerprint[1].emphasis_patterns.all_caps >= 2

\* every element of the emails argument is a str
AllStrings == \A i \in 1..Len(emails) : emails[i].type = "str"

\* C15: for a list of messages that is not empty and whose joined text holds
\* no sentence, analyze_person raises nothing and exclamation_usage and
\* question_usage are 0; otherwise they are the numbers of '!' and of '?' in
\* the joined text divided by the number of sentences.
C15_NoSentenceGivesZeroUsage ==
    (Ended /\ emails # <<>> /\ AllStrings) =>
        \A sentences \in {sent_tokenize(FullText)} :
            /\ pc = "returned"
            /\ error = "none"
            /\ analysis # <<>>
            /\ IF sentences = <<>>
               THEN /\ IsZero(analysis[1].writing_style.exclamation_usage)
                    /\ IsZero(analysis[1].writing_style.question_usage)
               ELSE /\ ratio_eq(analysis[1].writing_style.exclamation_usage,
                                <<Occurrences(FullText, <<"!">>), Len(sentences)>>)
                    /\ ratio_eq(analysis[1].writing_style.question_usage,
                                <<Occurrences(FullText, <<"?">>), Len(sentences)>>)

\* the outcome of _analyze_punctuation gives the rate of n occurrences under
\* the key
IsRate(q, n, chars) == q[1] * chars = n * 1000 * q[2]

\* C16: each of the four punctuation_style metrics is the number of
\* occurrences of its mark in the joined text, divided by the number of
\* characters of the text, times 1000; for the empty text each metric is 0
\* and nothing is raised.
C16_PunctuationRates ==
    punctuation # <<>> =>
        \A text \in {FullText} :
            /\ punctuation[1].raised = "none"
            /\ punctuation[1].style # <<>>
            /\ IF Len(text) = 0
               THEN /\ IsZero(punctuation[1].style[1].ellipsis_usage)
                    /\ IsZero(punctuation[1].style[1].dash_usage)
                    /\ IsZero(punctuation[1].style[1].parenthesis_usage)
                    /\ IsZero(punctuation[1].style[1].semicolon_usage)
               ELSE /\ IsRate(punctuation[1].style[1].ellipsis_usage,
                              Occurrences(text, <<".", ".", ".">>), Len(text))
                    /\ IsRate(punctuation[1].style[1].dash_usage,
                              Occurrences(text, <<"-">>) + Occurrences(text, <<EmDash>>),
                              Len(text))
                    /\ IsRate(punctuation[1].style[1].parenthesis_usage,
                              Occurrences(text, <<"(">>), Len(text))
                    /\ IsRate(punctuation[1].style[1].semicolon_usage,
                              Occurrences(text, <<";">>), Len(text))

\* what a newly constructed analyzer makes of the arguments of the call
FreshOutcome == analyze_person(__init__, emails, person_name)

\* C17: analyze_person never changes the stopword set of the analyzer nor the
\* list of messages of the caller: after any calls on the shared analyzer the
\* set is the one the constructor made, and the record of an author is the
\* one a new analyzer returns, whoever was analysed before.
C17_SharedAnalyzerUnchanged ==
    [][ /\ stop_words' = __init__
        /\ pc = "called" =>
              /\ emails' = emails
              /\ \A fresh \in {FreshOutcome} :
                    /\ analysis' = fresh.analysis
                    /\ error' = fresh.raised ]_vars

\* the second call in a row on the shared analyzer has returned a record
\* with a favorite phrase that holds "not" or "very", for the author bob
C17_Witness ==
    /\ pc = "returned"
    /\ previous # <<>>
    /\ person_name = "bob"
    /\ stop_words = __init__
    /\ analysis[1].person = "bob"
    /\ Len(emails) = 1
    /\ \E k \in 1..Len(analysis[1].favorite_phrases) :
          \/ Occurrences(analysis[1].favorite_phrases[k][1], <<"n","o","t"," ">>) > 0
          \/ Occurrences(analysis[1].favorite_phrases[k][1], <<"v","e","r","y"," ">>) > 0

\* the whitespace-delimited tokens of the text
WhitespaceTokens(text) ==
    LET starts == {i \in 1..Len(text) :
                      ~IsSpace(text[i]) /\ (i = 1 \/ IsSpace(text[i - 1]))}
        EndOf(i) == Min({j \in i..Len(text) : j = Len(text) \/ IsSpace(text[j + 1])})
    IN  {<<i, SubSeq(text, i, EndOf(i))>> : i \in starts}

\* C18: uppercase_ratio is the number of whitespace-delimited tokens of the
\* joined text made of capital letters only, divided by the number of
\* whitespace-delimited tokens; it is 0 when the text has no token, and lies
\* between 0 and 1.
C18_UppercaseRatio ==
    (Ended /\ AllStrings) =>
        \A tokens \in {WhitespaceTokens(FullText)} :
            LET capitals == {tok \in tokens : \A k \in 1..Len(tok[2]) : tok[2][k] \in UpperChars}
            IN  /\ tokens = {} => pc = "returned"
                /\ pc = "returned" =>
                      /\ ratio_eq(analysis[1].writing_style.uppercase_ratio,
                                  IF tokens = {} THEN <<0, 1>>
                                  ELSE <<Cardinality(capitals), Cardinality(tokens)>>)
                      /\ ratio_le(<<0, 1>>, analysis[1].writing_style.uppercase_ratio)
                      /\ ratio_le(analysis[1].writing_style.uppercase_ratio, <<1, 1>>)

\* the last line of the message is a '-', optional whitespace and a word
EndsWithDashName(message) ==
    LET lines == split(strip(message), "\n")
    IN  match_minimal(lines[Len(lines)])

\* C19: a message whose last line is a '-' followed by a word increments the
\* category minimal, whatever the lines before it are.
C19_DashNameIsMinimal ==
    signatures # <<>> =>
        ValueOf(signatures[1], "minimal") >=
            Cardinality({m \in 1..Len(Strs) : EndsWithDashName(Strs[m])})

\* C20: in every record returned, unique_words <= total_words, the counts of
\* comfort_words sum to at most total_words, and comfort_words has at most
\* unique_words entries.
C20_ComfortWithinDiversity ==
    pc = "returned" =>
        /\ analysis[1].vocabulary_diversity.unique_words <=
               analysis[1].vocabulary_diversity.total_words
        /\ SumOfValues(analysis[1].comfort_words) <=
               analysis[1].vocabulary_diversity.total_words
        /\ Len(analysis[1].comfort_words) <=
               analysis[1].vocabulary_diversity.unique_words

\* a record has been returned with comfort words, a repeated word, stopwords
\* of more than 3 letters in the text, and fewer comfort words than unique
\* words
C20_Witness ==
    /\ pc = "returned"
    /\ analysis[1].comfort_words # <<>>
    /\ Len(analysis[1].comfort_words) < analysis[1].vocabulary_diversity.unique_words
    /\ 1 < SumOfValues(analysis[1].comfort_words)
    /\ Len(analysis[1].comfort_words) < SumOfValues(analysis[1].comfort_words)
    /\ Occurrences(lower(FullText), <<"v","e","r","y">>) > 0

\* the str has a character that is not whitespace
HasInk(e) == e.type = "str" /\ \E i \in 1..Len(e.value) : ~IsSpace(e.value[i])

\* every list of the dict has at least one and at least min_emails bodies,
\* each stripped and longer than min_content characters
KeptLists ==
    \A k \in 1..Len(person_emails[1]) :
        LET list == person_emails[1][k][2]
        IN  /\ Len(list) >= 1
            /\ Len(list) >= min_emails
            /\ \A i \in 1..Len(list) :
                   list[i] = strip(list[i]) /\ Len(list[i]) > min_content

\* C21: every call of analyze_person that quick_start.py or app.py makes
\* passes a non-empty list of strs that each hold a character that is not
\* whitespace, and no such call raises: the dict of the loader holds only
\* lists of at least one and at least min_emails stripped bodies longer than
\* min_content characters, and a custom text is analysed only when it has at
\* least min_words whitespace-separated words
C21_ShippedCallsHaveInk ==
    /\ person_emails # <<>> => KeptLists
    /\ pc \in {"called", "returned", "raised"} =>
           /\ Len(emails) >= 1
           /\ \A i \in 1..Len(emails) : HasInk(emails[i])
           /\ entry = "custom" => Len(split_ws(emails[1].value)) >= min_words
           /\ entry \in {"quick_start", "app"} => Len(emails) >= min_emails
    /\ pc # "raised"
    /\ error = "none"

\* quick_start.py has analysed a person of a csv from which the loader had
\* dropped rows
C21_Witness ==
    /\ entry = "quick_start"
    /\ pc = "returned"
    /\ Len(emails) >= quick_start_min_emails
    /\ Len(emails_df[1]) < Len(csv)
    /\ analysis # <<>>

====
